---- MODULE Spec2Model ----
(***************************************************************************)
(* Model of the retrieval-augmented-generation core of the assistant:      *)
(*   - the chunker            (rag/index_simple.py, _split_into_chunks)     *)
(*   - the index store        (rag/index_simple.py, SimpleDocumentIndex)    *)
(*   - the query orchestrator (rag/query.py) and the text router            *)
(*     (services/router.py) over the session store (utils/helpers.py)       *)
(*                                                                         *)
(*   - keyword retrieval      (rag/index_simple.py, keyword_retrieve)       *)
(*   - context assembly       (rag/query.py, _prepare_context).             *)
(*                                                                         *)
(* Text is a sequence of one-character strings.  Eight specifications      *)
(* share the variables: SpecChunker (the pure chunker applied to bounded   *)
(* inputs), Spec (the index store and its persisted files), SpecQuery      *)
(* (requests routed through the orchestrator), SpecRetrieve (keyword       *)
(* retrieval over bounded indexes and questions), SpecContext (context     *)
(* assembly over bounded retrieval results), SpecRebuild (a re-index after *)
(* an upload next to retrievals on one event loop), SpecExample (a three-  *)
(* sentence document ingested and queried end to end) and SpecSessions     *)
(* (the session store on its own).                                         *)
(***************************************************************************)
EXTENDS Integers, Sequences, FiniteSets, TLC

VARIABLES
    \* ---- configuration (config.py: RAG_CHUNK_SIZE, RAG_CHUNK_OVERLAP)
    chunk_size,      \* characters per chunk
    overlap,         \* characters carried over on overflow
    \* ---- chunker under test
    text,            \* the input text of _split_into_chunks
    split_pc,        \* "input" before the call, "done" after it
    split_out,       \* the chunk sequence it returned
    \* ---- SimpleDocumentIndex and its files
    chunks,          \* self.chunks: sequence of chunk texts
    metadata,        \* self.metadata: sequence of [source |-> file name]
    chunks_file,     \* persist_directory/chunks.txt: NoFile, Undecodable or its text
    metadata_file,   \* persist_directory/metadata.txt: NoFile, Malformed or the JSON list
    documents,       \* the file names in DOCUMENTS_DIR
    last_op,         \* the method of the index that was called last
    result,          \* what it handed to its caller: [kind, value]
    save_status,     \* "none", or how the _save_index of the last operation ended
    failed,          \* the documents the last operation logged a processing error for
    \* ---- sessions, router and query orchestrator
    provider,        \* config.API_PROVIDER: "yandex" or "openai"
    sessions,        \* user_sessions: user -> conversation history
    modes,           \* user_sessions: user -> mode
    pc,              \* request -> the await it is suspended at
    req,             \* request -> locals of route_text_request
    gen_calls,       \* request -> the message lists sent to the Generator so far
    q_outcome,       \* request -> how its query_knowledge_base call ended
    response,        \* request -> what route_text_request handed back
    started,         \* number of requests started
    \* ---- keyword retrieval
    question,        \* the question handed to keyword_retrieve
    top_k,           \* its top_k
    retrieve_pc,     \* "input" or "done"
    retrieved,       \* the returned list of chunks, once done
    \* ---- context assembly
    results,         \* the ranked results handed to _prepare_context
    context_pc,      \* "input" or "done"
    context_block,   \* the returned context block, once done
    \* ---- a re-index in steps, next to the queries of other handlers
    rebuild,         \* locals of the running index_documents_directory call
    snapshot,        \* the index as the last completed call left it
    seen,            \* the index a keyword_retrieve call ran on, and the snapshot then
    \* ---- the session store on its own
    voices,          \* user_sessions: user -> voice
    added            \* user -> the messages added since the last clear_history

chunkerVars == <<text, split_pc, split_out>>
configVars == <<chunk_size, overlap>>
memoryVars == <<chunks, metadata>>
diskVars == <<chunks_file, metadata_file>>
dirVars == <<documents>>
outcomeVars == <<last_op, result, save_status, failed>>
indexVars == <<memoryVars, diskVars, dirVars, outcomeVars>>
sessionVars == <<sessions, modes>>
requestVars == <<pc, req, gen_calls, q_outcome, response, started>>
queryVars == <<provider, sessionVars, requestVars>>
retrieveVars == <<question, top_k, retrieve_pc, retrieved>>
assemblerVars == <<results, context_pc, context_block>>
rebuildVars == <<rebuild, snapshot, seen>>
settingVars == <<voices, added>>

-----------------------------------------------------------------------------
(* Bounds of the model *)

MaxTextLen == 5
MaxChunkSize == 4
\* appends stop once the chunk or the metadata sequence holds this many entries
MaxChunks == 2
\* requests started in one behaviour
MaxRequests == 2

-----------------------------------------------------------------------------
(* Characters and strings *)

\* str.strip() and the regular expression class \s: whitespace characters
Whitespace == {" ", "\n"}

\* the class [.!?] of the sentence splitter
Terminators == {".", "!", "?"}

\* the characters texts of the model are drawn from
Alphabet == {"a", "b", ".", " "}

RECURSIVE SeqsUpTo(_, _)
SeqsUpTo(S, n) ==
    IF n = 0 THEN {<<>>}
    ELSE LET shorter == SeqsUpTo(S, n - 1)
         IN  shorter \cup {Append(s, c) : s \in {t \in shorter : Len(t) = n - 1}, c \in S}

Texts == SeqsUpTo(Alphabet, MaxTextLen)

RECURSIVE LStrip(_)
LStrip(s) ==
    IF s = <<>> THEN <<>>
    ELSE IF Head(s) \in Whitespace THEN LStrip(Tail(s)) ELSE s

RECURSIVE RStrip(_)
RStrip(s) ==
    IF s = <<>> THEN <<>>
    ELSE IF s[Len(s)] \in Whitespace THEN RStrip(SubSeq(s, 1, Len(s) - 1)) ELSE s

\* str.strip()
Strip(s) == RStrip(LStrip(s))

\* [x.strip() for x in ss if x.strip()]
RECURSIVE StrippedNonEmpty(_)
StrippedNonEmpty(ss) ==
    IF ss = <<>> THEN <<>>
    ELSE (IF Strip(Head(ss)) = <<>> THEN <<>> ELSE <<Strip(Head(ss))>>)
         \o StrippedNonEmpty(Tail(ss))

\* s[-n:] of Python: the last n characters, and the whole of s when n = 0
\* (s[-0:] is s[0:]) or when s is shorter than n
LastChars(s, n) ==
    IF n = 0 \/ n >= Len(s) THEN s ELSE SubSeq(s, Len(s) - n + 1, Len(s))

\* `needle in hay` of Python on strings
IsSubstring(needle, hay) ==
    \E i \in 0..(Len(hay) - Len(needle)) :
        SubSeq(hay, i + 1, i + Len(needle)) = needle

\* first index >= i of s that holds no whitespace (Len(s) + 1 when there is none)
RECURSIVE SkipSpace(_, _)
SkipSpace(s, i) ==
    IF i > Len(s) THEN i
    ELSE IF s[i] \in Whitespace THEN SkipSpace(s, i + 1) ELSE i

-----------------------------------------------------------------------------
(* The chunker: SimpleDocumentIndex._split_into_chunks *)

\* re.split(r'(?<=[.!?])\s+', text): cut at every whitespace run that follows a
\* sentence terminator; the run is consumed, the terminator stays
RECURSIVE SplitFrom(_, _, _)
SplitFrom(s, i, cur) ==
    IF i > Len(s) THEN <<cur>>
    ELSE IF s[i] \in Whitespace /\ i > 1 /\ s[i - 1] \in Terminators
         THEN <<cur>> \o SplitFrom(s, SkipSpace(s, i), <<>>)
         ELSE SplitFrom(s, i + 1, Append(cur, s[i]))

SplitSentences(s) == SplitFrom(s, 1, <<>>)

\* len(current_chunk) + len(sentence) <= RAG_CHUNK_SIZE
Fits(cur, sentence, size) == Len(cur) + Len(sentence) <= size

\* current_chunk += " " + sentence
Extend(cur, sentence) == cur \o <<" ">> \o sentence

\* the flush without its guard: the buffer is appended even when it is blank
FlushUnguarded(acc, cur) == Append(acc, Strip(cur))

\* if current_chunk.strip(): chunks.append(current_chunk.strip())
Flush(acc, cur) ==
    IF Strip(cur) # <<>> THEN Append(acc, Strip(cur)) ELSE acc

\* the reseed that keeps the overlap and loses the sentence that overflowed
ReseedDropsSentence(cur, sentence, ovl) ==
    IF Len(cur) > ovl THEN LastChars(cur, ovl) ELSE <<>>

\* the buffer that follows an overflow
Reseed(cur, sentence, ovl) ==
    IF Len(cur) > ovl
    THEN LastChars(cur, ovl) \o <<" ">> \o sentence
    ELSE sentence

\* the for loop of _split_into_chunks from sentence i on, then the final flush
RECURSIVE ChunkLoop(_, _, _, _, _, _)
ChunkLoop(sentences, i, acc, cur, size, ovl) ==
    IF i > Len(sentences) THEN Flush(acc, cur)
    ELSE IF Fits(cur, sentences[i], size)
         THEN ChunkLoop(sentences, i + 1, acc, Extend(cur, sentences[i]), size, ovl)
         ELSE ChunkLoop(sentences, i + 1, Flush(acc, cur),
                        Reseed(cur, sentences[i], ovl), size, ovl)

split_into_chunks(s, size, ovl) == ChunkLoop(SplitSentences(s), 1, <<>>, <<>>, size, ovl)

\* the overflows of the loop that flush a chunk, in order: the chunk flushed,
\* the sentence that did not fit and the buffer the loop goes on with
RECURSIVE Overflows(_, _, _, _, _)
Overflows(sentences, i, cur, size, ovl) ==
    IF i > Len(sentences) THEN <<>>
    ELSE IF Fits(cur, sentences[i], size)
         THEN Overflows(sentences, i + 1, Extend(cur, sentences[i]), size, ovl)
         ELSE (IF Strip(cur) # <<>>
               THEN <<[flushed |-> Strip(cur), sentence |-> sentences[i],
                       next |-> Reseed(cur, sentences[i], ovl)]>>
               ELSE <<>>)
              \o Overflows(sentences, i + 1, Reseed(cur, sentences[i], ovl), size, ovl)

-----------------------------------------------------------------------------
(* Sessions: utils/helpers.py, UserSession *)

Users == {"u1", "u2"}
Requests == {"r1", "r2"}
\* the text each request carries
QueryOf(r) == IF r = "r1" THEN <<"q1">> ELSE <<"q2">>

\* config.MAX_HISTORY_LENGTH
MAX_HISTORY_LENGTH == 10
\* conversation_history[-6:] of rag/query.py
HISTORY_WINDOW == 6

\* str(i) for small i
Numeral(i) == CASE i = 1 -> "1" [] i = 2 -> "2" [] i = 3 -> "3" [] i = 4 -> "4" [] OTHER -> "5"

\* the text the Generator answers with
Answer == <<"g">>

Msg(role, content) == [role |-> role, content |-> content]

\* locals of a request: hist_ref/hist_val are the binding of `history`, passed
\* is the value `conversation_history` had when the last messages were built,
\* retrieval is how the retrieval call ended and hits what it returned,
\* failures counts the Generator calls of the request that raised
NoRequest ==
    [user |-> "u1", text |-> <<>>, mode |-> "text", hist_ref |-> "detached", hist_val |-> <<>>,
     passed |-> <<>>, retrieval |-> "none", hits |-> <<>>, failures |-> 0]

\* s[-n:] for n > 0
LastN(s, n) == IF Len(s) <= n THEN s ELSE SubSeq(s, Len(s) - n + 1, Len(s))

\* the list the local variable `history` of request r is bound to: the list of
\* the session itself (get_history hands out the stored list, not a copy) or a
\* list no longer stored in the session
History(st, r) ==
    IF st.req[r].hist_ref = "session" THEN st.sessions[st.req[r].user] ELSE st.req[r].hist_val

\* UserSession.add_message on the state st = [sessions, req]: the message is
\* appended to the stored list; when the list grows past 2 * MAX_HISTORY_LENGTH
\* a new, shorter list replaces it and the requests holding the old one keep it
add_message(st, u, role, content) ==
    LET grown == Append(st.sessions[u], Msg(role, content))
        cut == Len(grown) > MAX_HISTORY_LENGTH * 2
    IN  [sessions |-> [st.sessions EXCEPT ![u] =
                          IF cut THEN LastN(grown, MAX_HISTORY_LENGTH * 2) ELSE grown],
         req |-> [r \in Requests |->
                    IF cut /\ st.req[r].user = u /\ st.req[r].hist_ref = "session"
                    THEN [st.req[r] EXCEPT !.hist_ref = "detached", !.hist_val = grown]
                    ELSE st.req[r]]]

Now == [sessions |-> sessions, req |-> req]

\* request r builds messages from its history
Passing(st, r) == [st.req EXCEPT ![r].passed = History(st, r)]

\* a Generator call of request r raised
Failing(rq, r) == [rq EXCEPT ![r].failures = @ + 1]

\* request r returns: its binding of `history` is gone
Leaving(st, r) == [st.req EXCEPT ![r].hist_ref = "detached", ![r].hist_val = <<>>]

\* the history of a user after n completed exchanges
RECURSIVE PastExchanges(_)
PastExchanges(n) ==
    IF n = 0 THEN <<>>
    ELSE PastExchanges(n - 1) \o <<Msg("user", <<"old", Numeral(n)>>), Msg("assistant", Answer)>>

\* the sessions a behaviour starts from: u1 has a history longer than the
\* window, u2 has never written
InitialSessions == [u \in Users |-> IF u = "u1" THEN PastExchanges(4) ELSE <<>>]

-----------------------------------------------------------------------------
(* The query orchestrator: rag/query.py *)

\* what a retrieval can hand back: ranked (text, source) results
Hit1 == [text |-> <<"c1">>, source |-> "d1.txt"]
Hit2 == [text |-> <<"c2">>, source |-> "d2.pdf"]
RetrievalResults == {<<>>, <<Hit1, Hit2>>}

\* keyword_retrieve catches its own exceptions; similarity_search_with_score
\* re-raises those of the vector store
RetrievalCanRaise == provider # "yandex"

\* "\n\n".join(relevant_chunks)
RECURSIVE JoinChunks(_)
JoinChunks(hits) ==
    IF hits = <<>> THEN <<>>
    ELSE IF Len(hits) = 1 THEN Head(hits).text
    ELSE Head(hits).text \o <<"\n", "\n">> \o JoinChunks(Tail(hits))

\* a result whose metadata has no 'source'
NoLabel == "(no source)"

\* doc.metadata.get('source', 'Unknown')
Label(hit) == IF hit.source = NoLabel THEN "Unknown" ELSE hit.source

\* the context parts put one after the other with nothing between them
RECURSIVE prepare_context_unjoined(_, _)
prepare_context_unjoined(hits, i) ==
    IF i > Len(hits) THEN <<>>
    ELSE <<"[Source ", Numeral(i), ": ", Label(hits[i]), "]", "\n">>
         \o Strip(hits[i].text) \o <<"\n">>
         \o prepare_context_unjoined(hits, i + 1)

\* _prepare_context: a "[source i: name]" header line, the content, a newline;
\* the parts joined by a newline
RECURSIVE prepare_context(_, _)
prepare_context(hits, i) ==
    IF i > Len(hits) THEN <<>>
    ELSE <<"[Source ", Numeral(i), ": ", Label(hits[i]), "]", "\n">>
         \o Strip(hits[i].text) \o <<"\n">>
         \o (IF i < Len(hits) THEN <<"\n">> ELSE <<>>)
         \o prepare_context(hits, i + 1)

\* the context put into the system prompt
Context(hits) == IF provider = "yandex" THEN JoinChunks(hits) ELSE prepare_context(hits, 1)

\* system_prompt.format(context=context)
RagSystem(context) == Msg("system", <<"RAG_PROMPT">> \o context \o <<"RAG_PROMPT_END">>)

\* the system message of _fallback_response: no context
FallbackSystem == Msg("system", <<"FALLBACK_PROMPT">>)

\* the fixed texts around the answer of _fallback_response
DisclaimerMarker == <<"DISCLAIMER", "\n", "\n">>
Hint == <<"\n", "\n", "HINT">>

\* the messages built from the whole history
rag_messages_untrimmed(context, history, query) ==
    <<RagSystem(context)>> \o history \o <<Msg("user", query)>>

\* messages of _generate_rag_response
rag_messages(context, history, query) ==
    <<RagSystem(context)>> \o LastN(history, HISTORY_WINDOW) \o <<Msg("user", query)>>

\* messages of _fallback_response
fallback_messages(history, query) ==
    <<FallbackSystem>> \o LastN(history, HISTORY_WINDOW) \o <<Msg("user", query)>>

\* the fallback that hands the answer of the Generator back as it came
fallback_text_bare(answer) == answer

\* the return value of _fallback_response
fallback_text(answer) == DisclaimerMarker \o answer \o Hint

-----------------------------------------------------------------------------
(* The router: services/router.py, route_text_request *)

ApologyText == <<"APOLOGY">>
ImageText == <<"IMAGE_CREATED">>
ImageErrorText == <<"IMAGE_ERROR">>
ImageNote == <<"IMAGE_NOTE">>

NoOutcome == [kind |-> "none", text |-> <<>>]
NoResponse == [kind |-> "none", text |-> <<>>, error |-> <<>>]

\* str(e) of the exception a failed call raised
RawError == <<"RAW_ERROR">>

\* the state of the retrieval variables in the specifications that do not use them
\* no index_documents_directory call is running
NoRebuild == [pc |-> "idle", todo |-> <<>>, pending |-> <<>>, source |-> "", total |-> 0, bad |-> {}]

\* an index: the two parallel lists
Index(cs, md) == [chunks |-> cs, metadata |-> md]

\* the state of the re-index variables in the specifications that do not use them
RebuildIdle ==
    /\ rebuild = NoRebuild
    /\ snapshot = Index(<<>>, <<>>)
    /\ seen = [index |-> Index(<<>>, <<>>), complete |-> Index(<<>>, <<>>)]

\* config.DEFAULT_VOICE
DEFAULT_VOICE == "alloy"

\* the state of the session-store variables in the specifications that do
\* not use them
SettingsIdle ==
    /\ voices = [u \in Users |-> DEFAULT_VOICE]
    /\ added = [u \in Users |-> <<>>]

RetrieveIdle ==
    /\ RebuildIdle
    /\ SettingsIdle
    /\ question = <<>>
    /\ top_k = 0
    /\ retrieve_pc = "input"
    /\ retrieved = <<>>
    /\ results = <<>>
    /\ context_pc = "input"
    /\ context_block = <<>>

\* the state of the query variables in the specifications that do not use them
QueryIdle ==
    /\ provider = "yandex"
    /\ sessions = [u \in Users |-> <<>>]
    /\ modes = [u \in Users |-> "text"]
    /\ pc = [r \in Requests |-> "idle"]
    /\ req = [r \in Requests |-> NoRequest]
    /\ gen_calls = [r \in Requests |-> <<>>]
    /\ q_outcome = [r \in Requests |-> NoOutcome]
    /\ response = [r \in Requests |-> NoResponse]
    /\ started = 0
    /\ RetrieveIdle

\* the awaits of query_knowledge_base on the Generator
QueryWaits == {"gen_primary", "gen_fallback_try", "gen_fallback"}

\* YandexGPTClient.generate_text_response is a coroutine without an await:
\* it posts with the blocking requests library (timeout 60 s), so the event
\* loop runs nothing else until the call returns or raises.  The router's own
\* Generator and the intent detection go through AsyncOpenAI and do suspend.
HoldsLoop(r) == provider = "yandex" /\ pc[r] \in QueryWaits

\* the event loop can run a step of request r
Runnable(r) == \A o \in Requests \ {r} : ~HoldsLoop(o)

\* the event loop can run a handler
LoopIdle == \A o \in Requests : ~HoldsLoop(o)

\* route_text_request up to its first await (detect_image_generation_intent)
RouteStart(r) ==
    /\ Runnable(r)
    /\ pc[r] \in {"idle", "done"}
    /\ started < MaxRequests
    /\ \E u \in Users :
         req' = [req EXCEPT ![r] =
                   [user |-> u, text |-> QueryOf(r), mode |-> modes[u],
                    hist_ref |-> IF sessions[u] # <<>> THEN "session" ELSE "detached",
                    hist_val |-> <<>>, passed |-> <<>>, retrieval |-> "none",
                    hits |-> <<>>, failures |-> 0]]
    /\ pc' = [pc EXCEPT ![r] = "intent"]
    /\ gen_calls' = [gen_calls EXCEPT ![r] = <<>>]
    /\ q_outcome' = [q_outcome EXCEPT ![r] = NoOutcome]
    /\ response' = [response EXCEPT ![r] = NoResponse]
    /\ started' = started + 1
    /\ UNCHANGED <<provider, sessionVars, configVars, chunkerVars, indexVars, retrieveVars, assemblerVars, rebuildVars, settingVars>>

\* query_knowledge_base up to its first await: retrieval, then the messages of
\* the primary path, of the fallback called inside the try block (no results)
\* or of the fallback called by the except branch (retrieval raised)
QueryStart(r, st) ==
    \E hits \in RetrievalResults, raised \in BOOLEAN :
        /\ raised => RetrievalCanRaise /\ hits = <<>>
        /\ req' = [Passing(st, r) EXCEPT ![r].retrieval =
                     IF raised THEN "raised" ELSE IF hits = <<>> THEN "empty" ELSE "hits",
                     ![r].hits = hits]
        /\ IF hits = <<>>
           THEN /\ pc' = [pc EXCEPT ![r] = IF raised THEN "gen_fallback" ELSE "gen_fallback_try"]
                /\ gen_calls' = [gen_calls EXCEPT ![r] =
                                   <<fallback_messages(History(st, r), st.req[r].text)>>]
           ELSE /\ pc' = [pc EXCEPT ![r] = "gen_primary"]
                /\ gen_calls' = [gen_calls EXCEPT ![r] =
                                   <<rag_messages(Context(hits), History(st, r), st.req[r].text)>>]

\* the image-intent answer arrives; without image intent the user message is
\* recorded and the request goes on to the Generator
IntentDetected(r) ==
    /\ Runnable(r)
    /\ pc[r] = "intent"
    /\ \E wants_image \in BOOLEAN :
         IF wants_image
         THEN /\ pc' = [pc EXCEPT ![r] = "image"]
              /\ UNCHANGED <<sessions, req, gen_calls>>
         ELSE LET st == add_message(Now, req[r].user, "user", req[r].text)
              IN  /\ sessions' = st.sessions
                  /\ IF req[r].mode = "rag"
                     THEN QueryStart(r, st)
                     ELSE /\ req' = Passing(st, r)
                          /\ pc' = [pc EXCEPT ![r] = "gen_text"]
                          /\ gen_calls' = [gen_calls EXCEPT ![r] =
                                <<History(st, r) \o <<Msg("user", st.req[r].text)>>>>]
    /\ UNCHANGED <<provider, modes, q_outcome, response, started>>
    /\ UNCHANGED <<configVars, chunkerVars, indexVars, retrieveVars, assemblerVars, rebuildVars, settingVars>>

\* the awaits on generate_text_response
GeneratorWaits == {"gen_primary", "gen_fallback_try", "gen_fallback", "gen_text"}

\* route_text_request after the answer text is known
Respond(r, answer_text) ==
    LET st == add_message(Now, req[r].user, "assistant", answer_text)
    IN  /\ sessions' = st.sessions
        /\ req' = Leaving(st, r)
        /\ response' = [response EXCEPT ![r] =
                          [kind |-> "returned", text |-> answer_text, error |-> <<>>]]
        /\ pc' = [pc EXCEPT ![r] = "done"]

\* route_text_request without its except branch: the error propagates
ApologiseMissing(r) ==
    /\ response' = [response EXCEPT ![r] =
                      [kind |-> "raised", text |-> RawError, error |-> RawError]]
    /\ pc' = [pc EXCEPT ![r] = "done"]
    /\ req' = Failing(Leaving(Now, r), r)
    /\ UNCHANGED sessions

\* the except branch of route_text_request
Apologise(r) ==
    /\ response' = [response EXCEPT ![r] =
                      [kind |-> "returned", text |-> ApologyText, error |-> RawError]]
    /\ pc' = [pc EXCEPT ![r] = "done"]
    /\ req' = Failing(Leaving(Now, r), r)
    /\ UNCHANGED sessions

\* generate_text_response returns
GeneratorReturns(r) ==
    /\ Runnable(r)
    /\ pc[r] \in GeneratorWaits
    /\ LET answer_text == IF pc[r] \in {"gen_fallback_try", "gen_fallback"}
                          THEN fallback_text(Answer) ELSE Answer
       IN  /\ Respond(r, answer_text)
           /\ q_outcome' = IF pc[r] = "gen_text" THEN q_outcome
                           ELSE [q_outcome EXCEPT ![r] =
                                   [kind |-> "returned", text |-> answer_text]]
    /\ UNCHANGED <<provider, modes, gen_calls, started>>
    /\ UNCHANGED <<configVars, chunkerVars, indexVars, retrieveVars, assemblerVars, rebuildVars, settingVars>>

\* generate_text_response raises (an API error, a timeout): in the try block
\* of query_knowledge_base the except branch calls _fallback_response; in
\* that call, or in text mode, the error reaches route_text_request
GeneratorFails(r) ==
    /\ Runnable(r)
    /\ pc[r] \in GeneratorWaits
    /\ IF pc[r] \in {"gen_primary", "gen_fallback_try"}
       THEN /\ gen_calls' = [gen_calls EXCEPT ![r] =
                               Append(@, fallback_messages(History(Now, r), req[r].text))]
            /\ pc' = [pc EXCEPT ![r] = "gen_fallback"]
            /\ req' = Failing(Passing(Now, r), r)
            /\ UNCHANGED <<sessions, q_outcome, response>>
       ELSE /\ Apologise(r)
            /\ q_outcome' = IF pc[r] = "gen_text" THEN q_outcome
                            ELSE [q_outcome EXCEPT ![r] = [kind |-> "raised", text |-> RawError]]
            /\ UNCHANGED gen_calls
    /\ UNCHANGED <<provider, modes, started>>
    /\ UNCHANGED <<configVars, chunkerVars, indexVars, retrieveVars, assemblerVars, rebuildVars, settingVars>>

\* route_image_generation_request: generate_image returns or raises
ImageDone(r) ==
    /\ Runnable(r)
    /\ pc[r] = "image"
    /\ \E ok \in BOOLEAN :
         LET said == IF ok THEN ImageText ELSE ImageErrorText
             noted == IF ok THEN ImageNote ELSE ImageErrorText
             st1 == add_message(Now, req[r].user, "user", <<"IMAGE_REQUEST">> \o req[r].text)
             st2 == add_message(st1, req[r].user, "assistant", noted)
         IN  /\ sessions' = st2.sessions
             /\ req' = Leaving(st2, r)
             /\ response' = [response EXCEPT ![r] =
                               [kind |-> "returned", text |-> said,
                                error |-> IF ok THEN <<>> ELSE RawError]]
    /\ pc' = [pc EXCEPT ![r] = "done"]
    /\ UNCHANGED <<provider, modes, gen_calls, q_outcome, started>>
    /\ UNCHANGED <<configVars, chunkerVars, indexVars, retrieveVars, assemblerVars, rebuildVars, settingVars>>

\* /mode: UserSession.set_mode
SetMode(u) ==
    /\ LoopIdle
    /\ \E m \in {"text", "rag"} : m # modes[u] /\ modes' = [modes EXCEPT ![u] = m]
    /\ UNCHANGED <<provider, sessions, requestVars, configVars, chunkerVars, indexVars, retrieveVars, assemblerVars, rebuildVars, settingVars>>

-----------------------------------------------------------------------------
(* The index store: SimpleDocumentIndex *)

\* a file of the persist directory: absent, unusable, or holding a content
NoFile == [state |-> "missing", content |-> <<>>]
\* a chunks.txt that open(..., encoding='utf-8').read() cannot decode
Undecodable == [state |-> "undecodable", content |-> <<>>]
\* a metadata.txt that json.load cannot parse
Malformed == [state |-> "malformed", content |-> <<>>]
FileOf(content) == [state |-> "ok", content |-> content]

\* "###CHUNK_SEPARATOR###", written here as the one reserved character "#"
Separator == <<"#">>

\* the files that can be in DOCUMENTS_DIR, and their text
DocNames == {"d1.txt", "d2.pdf"}

DocText(d) ==
    CASE d = "d1.txt" -> <<"a", ".">>
      [] d = "d2.pdf" -> <<"c", "a", "t", ".">>
      [] OTHER -> <<>>

\* d.suffix in ['.pdf', '.txt', '.md']
Supported(d) == d \in {"d1.txt", "d2.pdf"}

Returned(n) == [kind |-> "returned", value |-> n]

\* the state of the index variables in the specifications that do not use them
IndexIdle ==
    /\ chunks = <<>>
    /\ metadata = <<>>
    /\ chunks_file = NoFile
    /\ metadata_file = NoFile
    /\ documents = {}
    /\ last_op = "none"
    /\ result = Returned(0)
    /\ save_status = "none"
    /\ failed = {}

\* the chunk file written with a newline, but no separator, after each chunk
RECURSIVE ChunkFileTextUnseparated(_)
ChunkFileTextUnseparated(cs) ==
    IF cs = <<>> THEN <<>>
    ELSE Head(cs) \o <<"\n">> \o ChunkFileTextUnseparated(Tail(cs))

\* the text written to chunks.txt: every chunk followed by "\n" separator "\n"
RECURSIVE ChunkFileText(_)
ChunkFileText(cs) ==
    IF cs = <<>> THEN <<>>
    ELSE Head(cs) \o <<"\n">> \o Separator \o <<"\n">> \o ChunkFileText(Tail(cs))

\* content.split("###CHUNK_SEPARATOR###")
RECURSIVE SplitOn(_, _, _)
SplitOn(s, i, cur) ==
    IF i > Len(s) THEN <<cur>>
    ELSE IF i + Len(Separator) - 1 <= Len(s)
            /\ SubSeq(s, i, i + Len(Separator) - 1) = Separator
         THEN <<cur>> \o SplitOn(s, i + Len(Separator), <<>>)
         ELSE SplitOn(s, i + 1, Append(cur, s[i]))

\* [c.strip() for c in content.split(...) if c.strip()]
ParseChunkFile(content) == StrippedNonEmpty(SplitOn(content, 1, <<>>))

\* [{'source': name}] * n
Repeat(e, n) == [i \in 1..n |-> e]

\* a _process_document that skips a document the index already has chunks of
process_document_once(cs, md, d, bad) ==
    IF d \in bad \/ (\E i \in 1..Len(md) : md[i] = [source |-> d])
    THEN <<cs, md, 0>>
    ELSE LET new == split_into_chunks(DocText(d), chunk_size, overlap)
         IN  <<cs \o new, md \o Repeat([source |-> d], Len(new)), Len(new)>>

\* _process_document on the index (cs, md), bad being the documents whose read
\* raises: <<chunks, metadata, len(returned list)>>
process_document(cs, md, d, bad) ==
    IF d \in bad
    THEN <<cs, md, 0>>
    ELSE LET new == split_into_chunks(DocText(d), chunk_size, overlap)
         IN  <<cs \o new, md \o Repeat([source |-> d], Len(new)), Len(new)>>

\* the loop of index_documents_directory over the documents in glob order
RECURSIVE ProcessAll(_, _, _, _, _, _)
ProcessAll(order, i, cs, md, total, bad) ==
    IF i > Len(order) THEN <<cs, md, total>>
    ELSE LET r == process_document(cs, md, order[i], bad)
         IN  ProcessAll(order, i + 1, r[1], r[2], total + r[3], bad)

\* the orders glob('*') can list a set of files in
Orders(S) == {o \in [1..Cardinality(S) -> S] : \A d \in S : \E i \in DOMAIN o : o[i] = d}

\* how a _save_index can end: both files written; the open of chunks.txt raises;
\* chunks.txt is written and the open of metadata.txt raises
SaveOutcomes == {"ok", "chunks_open_failed", "metadata_open_failed"}

\* _save_index of (cs, md): the files afterwards; an exception is logged, not raised
save_index(cs, md, how) ==
    /\ chunks_file' = IF how = "chunks_open_failed" THEN chunks_file
                    ELSE FileOf(ChunkFileText(cs))
    /\ metadata_file' = IF how = "ok" THEN FileOf(md) ELSE metadata_file
    /\ save_status' = IF how = "ok" THEN "ok" ELSE "failed"

\* _load_index: the in-memory index and the return value afterwards
load_index ==
    IF chunks_file = NoFile \/ chunks_file = Undecodable
    THEN /\ UNCHANGED memoryVars
         /\ result' = Returned(0)
    ELSE LET loaded == ParseChunkFile(chunks_file.content)
         IN  /\ chunks' = loaded
             /\ IF metadata_file = Malformed
                THEN /\ metadata' = metadata
                     /\ result' = Returned(0)
                ELSE /\ metadata' = IF metadata_file = NoFile
                                    THEN Repeat([source |-> "Unknown"], Len(loaded))
                                    ELSE metadata_file.content
                     /\ result' = Returned(Len(loaded))

\* index_documents_directory(force_reindex) over the directory docs
index_documents_directory(force_reindex, docs, bad) ==
    IF chunks_file # NoFile /\ ~force_reindex
    THEN /\ load_index
         /\ save_status' = "none"
         /\ failed' = {}
         /\ UNCHANGED diskVars
    ELSE IF {d \in docs : Supported(d)} = {}
    THEN /\ result' = Returned(0)
         /\ save_status' = "none"
         /\ failed' = {}
         /\ UNCHANGED <<memoryVars, diskVars>>
    ELSE \E order \in Orders({d \in docs : Supported(d)}), how \in SaveOutcomes :
            LET r == ProcessAll(order, 1, chunks, metadata, 0, bad)
            IN  /\ Len(r[1]) <= MaxChunks
                /\ Len(r[2]) <= MaxChunks
                /\ chunks' = r[1]
                /\ metadata' = r[2]
                /\ save_index(r[1], r[2], how)
                /\ result' = Returned(r[3])
                /\ failed' = {d \in docs : Supported(d) /\ d \in bad}

\* a call of index_documents_directory
IndexDirectory ==
    /\ \E force_reindex \in BOOLEAN, bad \in SUBSET documents :
         index_documents_directory(force_reindex, documents, bad)
    /\ last_op' = "index_documents_directory"
    /\ UNCHANGED <<dirVars, configVars, chunkerVars, queryVars, retrieveVars, assemblerVars, rebuildVars, settingVars>>

\* process_document_upload with the keyword backend: the file is written to
\* DOCUMENTS_DIR, then the whole directory is re-indexed
UploadDocument ==
    /\ \E d \in DocNames : \E bad \in SUBSET (documents \cup {d}) :
         /\ documents' = documents \cup {d}
         /\ index_documents_directory(TRUE, documents', bad)
    /\ last_op' = "index_documents_directory"
    /\ UNCHANGED <<configVars, chunkerVars, queryVars, retrieveVars, assemblerVars, rebuildVars, settingVars>>

\* a call of _load_index
LoadIndex ==
    /\ load_index
    /\ last_op' = "_load_index"
    /\ save_status' = "none"
    /\ failed' = {}
    /\ UNCHANGED <<diskVars, dirVars, configVars, chunkerVars, queryVars, retrieveVars, assemblerVars, rebuildVars, settingVars>>

\* clear()
Clear ==
    /\ chunks' = <<>>
    /\ metadata' = <<>>
    /\ last_op' = "clear"
    /\ result' = Returned(0)
    /\ save_status' = "none"
    /\ failed' = {}
    /\ UNCHANGED <<diskVars, dirVars, configVars, chunkerVars, queryVars, retrieveVars, assemblerVars, rebuildVars, settingVars>>

\* the process starts again: SimpleDocumentIndex.__init__
Restart ==
    /\ chunks' = <<>>
    /\ metadata' = <<>>
    /\ last_op' = "__init__"
    /\ result' = Returned(0)
    /\ save_status' = "none"
    /\ failed' = {}
    /\ UNCHANGED <<diskVars, dirVars, configVars, chunkerVars, queryVars, retrieveVars, assemblerVars, rebuildVars, settingVars>>

\* the persisted files are damaged or removed from outside the process
DiskFault ==
    /\ chunks_file # NoFile
    /\ \/ chunks_file' = NoFile /\ UNCHANGED metadata_file
       \/ chunks_file' = Undecodable /\ UNCHANGED metadata_file
       \/ metadata_file' = NoFile /\ UNCHANGED chunks_file
       \/ metadata_file' = Malformed /\ UNCHANGED chunks_file
    /\ UNCHANGED <<memoryVars, dirVars, outcomeVars, configVars, chunkerVars, queryVars, retrieveVars, assemblerVars, rebuildVars, settingVars>>

InitIndex ==
    /\ chunk_size = MaxChunkSize
    /\ overlap = 1
    /\ text = <<>>
    /\ split_pc = "input"
    /\ split_out = <<>>
    /\ IndexIdle
    /\ QueryIdle

NextIndex ==
    \/ IndexDirectory
    \/ UploadDocument
    \/ LoadIndex
    \/ Clear
    \/ Restart
    \/ DiskFault

-----------------------------------------------------------------------------
(* Keyword retrieval: SimpleDocumentIndex.keyword_retrieve *)

\* bounds of the retrieval inputs
MaxQueryWords == 2
MaxIndexed == 2
MaxTopK == 2

\* the bonus of a chunk that holds the whole question
PHRASE_BONUS == 10
\* tokens of at most this many characters are dropped
SHORT_TOKEN == 2

\* str.lower() on the letters of the model
LowerChar(c) ==
    CASE c = "C" -> "c" [] c = "D" -> "d" [] c = "I" -> "i" [] c = "L" -> "l"
      [] c = "M" -> "m" [] c = "P" -> "p" [] c = "W" -> "w" [] OTHER -> c
lower(s) == [i \in 1..Len(s) |-> LowerChar(s[i])]

\* the characters \w matches: everything of the model but blanks and punctuation
IsWordChar(c) == c \notin Whitespace /\ c \notin Terminators /\ c \notin {",", "/"}

\* set(re.findall(r'\w+', s)): the maximal runs of word characters
RECURSIVE FindWords(_, _, _)
FindWords(s, i, cur) ==
    IF i > Len(s) THEN (IF cur = <<>> THEN {} ELSE {cur})
    ELSE IF IsWordChar(s[i]) THEN FindWords(s, i + 1, Append(cur, s[i]))
    ELSE (IF cur = <<>> THEN {} ELSE {cur}) \cup FindWords(s, i + 1, <<>>)

words(s) == FindWords(lower(s), 1, <<>>)

\* the stop words that can be written with the letters of the model
stop_words ==
    { <<"t","h","e">>, <<"a">>, <<"a","n">>, <<"i","s">>, <<"a","r","e">>,
      <<"w","a","s">>, <<"w","e","r","e">>, <<"b","e">>, <<"b","e","e","n">> }

\* the question's tokens that are long enough and are no stop words
q_words(q) == {w \in words(q) : Len(w) > SHORT_TOKEN /\ w \notin stop_words}

\* the score without the bonus for holding the whole question
score_tokens_only(q, chunk) == Cardinality(q_words(q) \cap words(chunk))

\* the score of a chunk
score(q, chunk) ==
    Cardinality(q_words(q) \cap words(chunk))
    + (IF IsSubstring(lower(q), lower(chunk)) THEN PHRASE_BONUS ELSE 0)

\* the (score, chunk) pairs of the chunks with a positive score, in index order
RECURSIVE Scored(_, _, _)
Scored(q, cs, i) ==
    IF i > Len(cs) THEN <<>>
    ELSE (IF score(q, cs[i]) > 0 THEN <<<<score(q, cs[i]), cs[i]>>>> ELSE <<>>)
         \o Scored(q, cs, i + 1)

\* the insertion that puts pair e in front of the pairs of equal score
RECURSIVE InsertDescUnstable(_, _)
InsertDescUnstable(sorted, e) ==
    IF sorted = <<>> THEN <<e>>
    ELSE IF Head(sorted)[1] > e[1]
         THEN <<Head(sorted)>> \o InsertDescUnstable(Tail(sorted), e)
    ELSE <<e>> \o sorted

\* the insertion of pair e into a list sorted by score, descending, behind
\* the pairs of equal score
RECURSIVE InsertDesc(_, _)
InsertDesc(sorted, e) ==
    IF sorted = <<>> THEN <<e>>
    ELSE IF Head(sorted)[1] >= e[1] THEN <<Head(sorted)>> \o InsertDesc(Tail(sorted), e)
    ELSE <<e>> \o sorted

\* the scored list left in index order: the sort forgotten
Unsorted(l, i) == l

\* list.sort(key=score, reverse=True): stable
RECURSIVE SortDesc(_, _)
SortDesc(l, i) ==
    IF i = 0 THEN <<>> ELSE InsertDesc(SortDesc(l, i - 1), l[i])

\* l[:k] for k >= 0
FirstK(l, k) == SubSeq(l, 1, IF k < Len(l) THEN k ELSE Len(l))

\* keyword_retrieve that scores the chunks even when no token is left
keyword_retrieve_unfiltered(q, k, cs) ==
    LET scored == Scored(q, cs, 1)
        ranked == FirstK(SortDesc(scored, Len(scored)), k)
    IN  [i \in 1..Len(ranked) |-> ranked[i][2]]

\* keyword_retrieve(question, top_k) on the chunks cs
keyword_retrieve(q, k, cs) ==
    IF q_words(q) = {} THEN <<>>
    ELSE LET scored == Scored(q, cs, 1)
             ranked == FirstK(SortDesc(scored, Len(scored)), k)
         IN  [i \in 1..Len(ranked) |-> ranked[i][2]]

\* the words the questions and the chunks of the model are made of: two plain
\* words, one with a capital, one that holds another, a stop word, a short one
Vocabulary ==
    { <<"c","a","t">>, <<"d","o","g">>, <<"C","a","t">>, <<"c","a","t","s">>,
      <<"t","h","e">>, <<"o","k">> }

\* " ".join(ws)
RECURSIVE JoinWords(_)
JoinWords(ws) ==
    IF ws = <<>> THEN <<>>
    ELSE IF Len(ws) = 1 THEN ws[1]
    ELSE ws[1] \o <<" ">> \o JoinWords(Tail(ws))

\* the questions: up to MaxQueryWords words
Questions == {JoinWords(ws) : ws \in SeqsUpTo(Vocabulary, MaxQueryWords)}

\* the chunk texts an index of the model can hold
ChunkTexts ==
    { <<"c","a","t">>,
      <<"c","a","t"," ","d","o","g">>,
      <<"c","a","t","s">>,
      <<"t","h","e"," ","o","k">>,
      <<"D","o","g",","," ","c","a","t"," ","c","a","t",".">> }

InitRetrieve ==
    /\ chunk_size = MaxChunkSize
    /\ overlap = 1
    /\ text = <<>>
    /\ split_pc = "input"
    /\ split_out = <<>>
    /\ chunks \in SeqsUpTo(ChunkTexts, MaxIndexed)
    /\ metadata = Repeat([source |-> "d1.txt"], Len(chunks))
    /\ chunks_file = NoFile
    /\ metadata_file = NoFile
    /\ documents = {}
    /\ last_op = "none"
    /\ result = Returned(0)
    /\ save_status = "none"
    /\ failed = {}
    /\ provider = "yandex"
    /\ sessions = [u \in Users |-> <<>>]
    /\ modes = [u \in Users |-> "text"]
    /\ pc = [r \in Requests |-> "idle"]
    /\ req = [r \in Requests |-> NoRequest]
    /\ gen_calls = [r \in Requests |-> <<>>]
    /\ q_outcome = [r \in Requests |-> NoOutcome]
    /\ response = [r \in Requests |-> NoResponse]
    /\ started = 0
    /\ question \in Questions
    /\ top_k \in 0..MaxTopK
    /\ retrieve_pc = "input"
    /\ retrieved = <<>>
    /\ results = <<>>
    /\ context_pc = "input"
    /\ context_block = <<>>
    /\ RebuildIdle
    /\ SettingsIdle

\* a call of keyword_retrieve
Retrieve ==
    /\ retrieve_pc = "input"
    /\ retrieved' = keyword_retrieve(question, top_k, chunks)
    /\ retrieve_pc' = "done"
    /\ UNCHANGED <<question, top_k, configVars, chunkerVars, indexVars, queryVars, assemblerVars, rebuildVars, settingVars>>

NextRetrieve == Retrieve

-----------------------------------------------------------------------------
(* Context assembly: rag/query.py, _prepare_context *)

\* the number of results handed to _prepare_context
MaxResults == 3

\* the results a dense retrieval can rank: texts as the splitter leaves them,
\* with a source label or without one
Hit3 == [text |-> <<"a", " ", "b", ".">>, source |-> NoLabel]
Hit4 == [text |-> <<"b", ".">>, source |-> "d1.txt"]
Hits == {Hit1, Hit2, Hit3, Hit4}

InitContext ==
    /\ chunk_size = MaxChunkSize
    /\ overlap = 1
    /\ text = <<>>
    /\ split_pc = "input"
    /\ split_out = <<>>
    /\ IndexIdle
    /\ provider = "openai"
    /\ sessions = [u \in Users |-> <<>>]
    /\ modes = [u \in Users |-> "text"]
    /\ pc = [r \in Requests |-> "idle"]
    /\ req = [r \in Requests |-> NoRequest]
    /\ gen_calls = [r \in Requests |-> <<>>]
    /\ q_outcome = [r \in Requests |-> NoOutcome]
    /\ response = [r \in Requests |-> NoResponse]
    /\ started = 0
    /\ question = <<>>
    /\ top_k = 0
    /\ retrieve_pc = "input"
    /\ retrieved = <<>>
    /\ results \in SeqsUpTo(Hits, MaxResults)
    /\ context_pc = "input"
    /\ context_block = <<>>
    /\ RebuildIdle
    /\ SettingsIdle

\* a call of _prepare_context
PrepareContext ==
    /\ context_pc = "input"
    /\ context_block' = prepare_context(results, 1)
    /\ context_pc' = "done"
    /\ UNCHANGED <<results, configVars, chunkerVars, indexVars, queryVars, retrieveVars, rebuildVars, settingVars>>

NextContext == PrepareContext

-----------------------------------------------------------------------------
(* A re-index next to queries: process_document_upload and keyword_retrieve *)

\* index_documents_directory and _process_document are plain functions with
\* no await in them, and the handlers run on the one event loop of
\* AsyncTeleBot: the loop runs the step of another handler only when no call
\* of index_documents_directory is under way
LoopRunsQueryAnytime == TRUE

LoopRunsQuery == rebuild.pc = "idle"

\* process_document_upload with the keyword backend, up to the listing of
\* DOCUMENTS_DIR inside index_documents_directory(force_reindex=True)
UploadBegin ==
    /\ rebuild.pc = "idle"
    /\ Len(chunks) < MaxChunks
    /\ \E d \in DocNames :
         /\ documents' = documents \cup {d}
         /\ \E order \in Orders({x \in documents' : Supported(x)}), bad \in SUBSET documents' :
              rebuild' = [NoRebuild EXCEPT !.pc = "next", !.todo = order, !.bad = bad]
    /\ UNCHANGED <<memoryVars, diskVars, outcomeVars, snapshot, seen>>
    /\ UNCHANGED <<configVars, chunkerVars, queryVars, retrieveVars, assemblerVars, settingVars>>

\* _process_document up to its loop: the text is read and split
ReadDocument ==
    /\ rebuild.pc = "next"
    /\ rebuild.todo # <<>>
    /\ LET d == Head(rebuild.todo)
           new == IF d \in rebuild.bad THEN <<>>
                  ELSE split_into_chunks(DocText(d), chunk_size, overlap)
       IN  rebuild' = [rebuild EXCEPT !.todo = Tail(@), !.source = d, !.pending = new,
                                      !.pc = IF new = <<>> THEN "next" ELSE "chunk"]
    /\ UNCHANGED <<indexVars, snapshot, seen>>
    /\ UNCHANGED <<configVars, chunkerVars, queryVars, retrieveVars, assemblerVars, settingVars>>

\* self.chunks.append(chunk)
AppendChunk ==
    /\ rebuild.pc = "chunk"
    /\ chunks' = Append(chunks, Head(rebuild.pending))
    /\ rebuild' = [rebuild EXCEPT !.pc = "meta"]
    /\ UNCHANGED <<metadata, diskVars, dirVars, outcomeVars, snapshot, seen>>
    /\ UNCHANGED <<configVars, chunkerVars, queryVars, retrieveVars, assemblerVars, settingVars>>

\* self.metadata.append({'source': doc_path.name})
AppendMetadata ==
    /\ rebuild.pc = "meta"
    /\ metadata' = Append(metadata, [source |-> rebuild.source])
    /\ rebuild' = [rebuild EXCEPT !.pending = Tail(@), !.total = @ + 1,
                                  !.pc = IF Tail(rebuild.pending) = <<>> THEN "next" ELSE "chunk"]
    /\ UNCHANGED <<chunks, diskVars, dirVars, outcomeVars, snapshot, seen>>
    /\ UNCHANGED <<configVars, chunkerVars, queryVars, retrieveVars, assemblerVars, settingVars>>

\* the loop is over: _save_index, and the total is returned
SaveAndReturn ==
    /\ rebuild.pc = "next"
    /\ rebuild.todo = <<>>
    /\ \E how \in SaveOutcomes : save_index(chunks, metadata, how)
    /\ result' = Returned(rebuild.total)
    /\ failed' = {d \in documents : Supported(d) /\ d \in rebuild.bad}
    /\ last_op' = "index_documents_directory"
    /\ snapshot' = Index(chunks, metadata)
    /\ rebuild' = NoRebuild
    /\ UNCHANGED <<memoryVars, dirVars, seen>>
    /\ UNCHANGED <<configVars, chunkerVars, queryVars, retrieveVars, assemblerVars, settingVars>>

\* the questions asked while documents are uploaded
AskedQuestions == {<<"a">>, <<"c", "a", "t">>}

\* a retrieval that persists the index it has read
QueryRetrieveSaving ==
    /\ LoopRunsQuery
    /\ \E q \in AskedQuestions, raised \in BOOLEAN :
         /\ question' = q
         /\ top_k' = MaxTopK
         /\ retrieved' = IF raised THEN <<>> ELSE keyword_retrieve(q, MaxTopK, chunks)
    /\ retrieve_pc' = "done"
    /\ seen' = [index |-> Index(chunks, metadata), complete |-> snapshot]
    /\ save_index(chunks, metadata, "ok")
    /\ UNCHANGED <<memoryVars, dirVars, last_op, result, failed, rebuild, snapshot>>
    /\ UNCHANGED <<configVars, chunkerVars, queryVars, assemblerVars, settingVars>>

\* query_knowledge_base of another handler reaches keyword_retrieve, which
\* returns its ranked chunks or, from its except branch, the empty list
QueryRetrieve ==
    /\ LoopRunsQuery
    /\ \E q \in AskedQuestions, raised \in BOOLEAN :
         /\ question' = q
         /\ top_k' = MaxTopK
         /\ retrieved' = IF raised THEN <<>> ELSE keyword_retrieve(q, MaxTopK, chunks)
    /\ retrieve_pc' = "done"
    /\ seen' = [index |-> Index(chunks, metadata), complete |-> snapshot]
    /\ UNCHANGED <<indexVars, rebuild, snapshot>>
    /\ UNCHANGED <<configVars, chunkerVars, queryVars, assemblerVars, settingVars>>

InitRebuild ==
    /\ chunk_size = MaxChunkSize
    /\ overlap = 1
    /\ text = <<>>
    /\ split_pc = "input"
    /\ split_out = <<>>
    /\ IndexIdle
    /\ QueryIdle

NextRebuild ==
    \/ UploadBegin
    \/ ReadDocument
    \/ AppendChunk
    \/ AppendMetadata
    \/ SaveAndReturn
    \/ QueryRetrieve

-----------------------------------------------------------------------------
(* The end-to-end example: a document is ingested, then queried *)

\* the three sentences of the example document
PumpsSentence ==
    <<"P", "u", "m", "p", "s", " ", "r", "a", "t", "e", "d", " ", "a", "t",
      " ", "5", "0", " ", "L", "/", "m", "i", "n", ".">>

PressureSentence ==
    <<"M", "a", "x", "i", "m", "u", "m", " ", "p", "r", "e", "s", "s", "u",
      "r", "e", " ", "i", "s", " ", "1", "0", " ", "b", "a", "r", ".">>

BoltsSentence ==
    <<"I", "n", "s", "t", "a", "l", "l", " ", "w", "i", "t", "h", " ", "2",
      " ", "b", "o", "l", "t", "s", ".">>

\* the document: the sentences in the order of the example
ExampleSentences == <<PumpsSentence, PressureSentence, BoltsSentence>>

\* the white space that can stand between two sentences of a text file
Gaps == {<<" ">>, <<"\n">>, <<" ", " ">>, <<"\n", "\n">>}

\* the texts of the example document, and of the documents that hold the
\* same sentences in another order
Arrangements == {o \in [1..3 -> 1..3] : \A i \in 1..3 : \E j \in 1..3 : o[j] = i}

ExampleTexts ==
    {ExampleSentences[o[1]] \o g1 \o ExampleSentences[o[2]] \o g2 \o ExampleSentences[o[3]] :
        o \in Arrangements, g1 \in Gaps, g2 \in Gaps}

ExampleQuestion ==
    <<"W", "h", "a", "t", " ", "i", "s", " ", "t", "h", "e", " ", "m", "a",
      "x", "i", "m", "u", "m", " ", "p", "r", "e", "s", "s", "u", "r", "e",
      "?">>

\* RAG_TOP_K values a deployment can set
ExampleTopK == 1..5

\* _process_document on the text of the example: split, then append the
\* chunks and their metadata
IngestExample ==
    /\ split_pc = "input"
    /\ split_out' = split_into_chunks(text, chunk_size, overlap)
    /\ chunks' = chunks \o split_out'
    /\ metadata' = metadata \o Repeat([source |-> "d1.txt"], Len(split_out'))
    /\ split_pc' = "done"
    /\ UNCHANGED <<text, diskVars, dirVars, outcomeVars>>
    /\ UNCHANGED <<configVars, queryVars, retrieveVars, assemblerVars, rebuildVars, settingVars>>

\* keyword_retrieve on the ingested document
AskExample ==
    /\ split_pc = "done"
    /\ retrieve_pc = "input"
    /\ retrieved' = keyword_retrieve(question, top_k, chunks)
    /\ retrieve_pc' = "done"
    /\ UNCHANGED <<question, top_k, rebuildVars>>
    /\ UNCHANGED <<configVars, chunkerVars, indexVars, queryVars, assemblerVars, settingVars>>

InitExample ==
    /\ chunk_size = 60
    /\ overlap = 10
    /\ text \in ExampleTexts
    /\ split_pc = "input"
    /\ split_out = <<>>
    /\ IndexIdle
    /\ provider = "yandex"
    /\ sessions = [u \in Users |-> <<>>]
    /\ modes = [u \in Users |-> "text"]
    /\ pc = [r \in Requests |-> "idle"]
    /\ req = [r \in Requests |-> NoRequest]
    /\ gen_calls = [r \in Requests |-> <<>>]
    /\ q_outcome = [r \in Requests |-> NoOutcome]
    /\ response = [r \in Requests |-> NoResponse]
    /\ started = 0
    /\ question = ExampleQuestion
    /\ top_k \in ExampleTopK
    /\ retrieve_pc = "input"
    /\ retrieved = <<>>
    /\ results = <<>>
    /\ context_pc = "input"
    /\ context_block = <<>>
    /\ RebuildIdle
    /\ SettingsIdle

NextExample ==
    \/ IngestExample
    \/ AskExample

-----------------------------------------------------------------------------
(* The session store on its own: UserSession *)

\* the number of messages a behaviour adds to a history that is already full
MaxNew == 2

\* config.VoiceType
Voices == {"alloy", "nova"}

\* the k-th message a user's history got since it was last empty
Numbered(role, k) == Msg(role, <<k>>)

\* a history of n messages, the roles taking turns
Stored(n) == [k \in 1..n |-> Numbered(IF k % 2 = 1 THEN "user" ELSE "assistant", k)]

\* clear_history that empties the whole store: every history and setting
clear_everything(u) ==
    /\ sessions' = [v \in Users |-> <<>>]
    /\ modes' = [v \in Users |-> "text"]
    /\ voices' = [v \in Users |-> DEFAULT_VOICE]

\* clear_history: del self.sessions[user_id]; get_history then gives []
clear_history(u) ==
    /\ sessions' = [sessions EXCEPT ![u] = <<>>]
    /\ UNCHANGED <<modes, voices>>

\* the histories that take another message in the model: those begun since
\* the last clear_history, and those about to be cut
Growing(h) ==
    \/ Len(h) < MaxNew
    \/ Len(h) >= 2 * MAX_HISTORY_LENGTH - 1 /\ Len(h) < 2 * MAX_HISTORY_LENGTH - 1 + MaxNew

\* a call of add_message
AddMessage(u) ==
    /\ Growing(added[u])
    /\ \E role \in {"user", "assistant"} :
         LET m == Numbered(role, Len(added[u]) + 1)
         IN  /\ sessions' = add_message(Now, u, role, m.content).sessions
             /\ added' = [added EXCEPT ![u] = Append(@, m)]
    /\ UNCHANGED <<provider, modes, requestVars, voices>>
    /\ UNCHANGED <<configVars, chunkerVars, indexVars, retrieveVars, assemblerVars, rebuildVars>>

\* a call of clear_history
ClearHistory(u) ==
    /\ clear_history(u)
    /\ added' = [added EXCEPT ![u] = <<>>]
    /\ UNCHANGED <<provider, requestVars>>
    /\ UNCHANGED <<configVars, chunkerVars, indexVars, retrieveVars, assemblerVars, rebuildVars>>

\* a call of set_voice
SetVoice(u) ==
    /\ \E v \in Voices : v # voices[u] /\ voices' = [voices EXCEPT ![u] = v]
    /\ UNCHANGED <<queryVars, added>>
    /\ UNCHANGED <<configVars, chunkerVars, indexVars, retrieveVars, assemblerVars, rebuildVars>>

InitSessions ==
    /\ chunk_size = MaxChunkSize
    /\ overlap = 1
    /\ text = <<>>
    /\ split_pc = "input"
    /\ split_out = <<>>
    /\ IndexIdle
    /\ provider = "yandex"
    /\ added \in [Users -> {Stored(0), Stored(2 * MAX_HISTORY_LENGTH - 1)}]
    /\ sessions = added
    /\ modes = [u \in Users |-> "text"]
    /\ voices = [u \in Users |-> DEFAULT_VOICE]
    /\ pc = [r \in Requests |-> "idle"]
    /\ req = [r \in Requests |-> NoRequest]
    /\ gen_calls = [r \in Requests |-> <<>>]
    /\ q_outcome = [r \in Requests |-> NoOutcome]
    /\ response = [r \in Requests |-> NoResponse]
    /\ started = 0
    /\ question = <<>>
    /\ top_k = 0
    /\ retrieve_pc = "input"
    /\ retrieved = <<>>
    /\ results = <<>>
    /\ context_pc = "input"
    /\ context_block = <<>>
    /\ RebuildIdle

NextSessions ==
    \/ \E u \in Users : AddMessage(u)
    \/ \E u \in Users : ClearHistory(u)
    \/ \E u \in Users : SetMode(u)
    \/ \E u \in Users : SetVoice(u)

-----------------------------------------------------------------------------
(* Specification of the routed requests *)

InitQuery ==
    /\ chunk_size = MaxChunkSize
    /\ overlap = 1
    /\ text = <<>>
    /\ split_pc = "input"
    /\ split_out = <<>>
    /\ IndexIdle
    /\ provider \in {"yandex", "openai"}
    /\ sessions = InitialSessions
    /\ modes = [u \in Users |-> "text"]
    /\ pc = [r \in Requests |-> "idle"]
    /\ req = [r \in Requests |-> NoRequest]
    /\ gen_calls = [r \in Requests |-> <<>>]
    /\ q_outcome = [r \in Requests |-> NoOutcome]
    /\ response = [r \in Requests |-> NoResponse]
    /\ started = 0
    /\ RetrieveIdle

NextQuery ==
    \/ \E r \in Requests : RouteStart(r)
    \/ \E r \in Requests : IntentDetected(r)
    \/ \E r \in Requests : GeneratorReturns(r)
    \/ \E r \in Requests : GeneratorFails(r)
    \/ \E r \in Requests : ImageDone(r)
    \/ \E u \in Users : SetMode(u)

-----------------------------------------------------------------------------
(* Specification of the chunker on bounded inputs *)

InitChunker ==
    /\ chunk_size \in 1..MaxChunkSize
    /\ overlap \in 0..(chunk_size - 1)
    /\ text \in Texts
    /\ split_pc = "input"
    /\ split_out = <<>>
    /\ IndexIdle
    /\ QueryIdle

SplitText ==
    /\ split_pc = "input"
    /\ split_out' = split_into_chunks(text, chunk_size, overlap)
    /\ split_pc' = "done"
    /\ UNCHANGED <<text, configVars, indexVars, queryVars, retrieveVars, assemblerVars, rebuildVars, settingVars>>

NextChunker == SplitText

vars == <<configVars, chunkerVars, indexVars, queryVars, retrieveVars, assemblerVars, rebuildVars,
          settingVars>>

SpecChunker == InitChunker /\ [][NextChunker]_vars

Spec == InitIndex /\ [][NextIndex]_vars

SpecQuery == InitQuery /\ [][NextQuery]_vars

SpecRetrieve == InitRetrieve /\ [][NextRetrieve]_vars

SpecContext == InitContext /\ [][NextContext]_vars

SpecRebuild == InitRebuild /\ [][NextRebuild]_vars

SpecExample == InitExample /\ [][NextExample]_vars

SpecSessions == InitSessions /\ [][NextSessions]_vars

-----------------------------------------------------------------------------
(* Properties of the chunker *)

\* the sentences of the input text as the chunker sees them
Sentences == SplitSentences(text)

\* the sentences with the whitespace around them removed, the empty ones left out
Sents == StrippedNonEmpty(Sentences)

\* " ".join(ss)
RECURSIVE JoinSpace(_)
JoinSpace(ss) ==
    IF ss = <<>> THEN <<>>
    ELSE IF Len(ss) = 1 THEN Head(ss)
    ELSE Head(ss) \o <<" ">> \o JoinSpace(Tail(ss))

NonEmptySuffixes(s) == {SubSeq(s, i, Len(s)) : i \in 1..Len(s)}

\* chunk j is the sentences k+1..k2, alone or behind an overlap taken from the end
\* of chunk j-1
Explains(j, k, k2) ==
    LET body == JoinSpace(SubSeq(Sents, k + 1, k2))
    IN  \/ split_out[j] = body
        \/ /\ j > 1
           /\ \E x \in NonEmptySuffixes(split_out[j - 1]) :
                split_out[j] = Strip(x \o <<" ">> \o body)

\* the chunks from j on, overlaps discounted, are the sentences from k+1 on
RECURSIVE Reconstructs(_, _)
Reconstructs(j, k) ==
    IF j > Len(split_out) THEN k = Len(Sents)
    ELSE \E k2 \in k..Len(Sents) : Explains(j, k, k2) /\ Reconstructs(j + 1, k2)

OversizedSentences == {i \in 1..Len(Sentences) : Len(Sentences[i]) > chunk_size}
OversizedChunks == {j \in 1..Len(split_out) : Len(split_out[j]) > chunk_size}

\* C5: every chunk has length at most chunk_size, unless it holds a sentence that
\* is itself longer than chunk_size, and there is at most one oversized chunk per
\* oversized sentence.
C5_ChunkWithinSize ==
    split_pc = "done" =>
        /\ \A j \in OversizedChunks :
             \E i \in OversizedSentences : IsSubstring(Strip(Sentences[i]), split_out[j])
        /\ Cardinality(OversizedChunks) <= Cardinality(OversizedSentences)

\* C6: no sentence is dropped or truncated: every sentence appears whole inside
\* some chunk, and the chunks read in order, overlap prefixes discounted, give
\* back the sentence sequence in its order.
C6_NoSentenceLost ==
    split_pc = "done" =>
        /\ \A i \in 1..Len(Sents) :
             \E j \in 1..Len(split_out) : IsSubstring(Sents[i], split_out[j])
        /\ Reconstructs(1, 0)

\* a sentence longer than chunk_size was split off after an earlier chunk
C6_Witness ==
    /\ split_pc = "done"
    /\ Len(split_out) >= 2
    /\ \E i \in OversizedSentences : i > 1

\* C7: empty or whitespace-only text yields zero chunks, and no chunk of any
\* input is empty or whitespace-only.
C7_NoBlankChunk ==
    split_pc = "done" =>
        /\ (Strip(text) = <<>> => split_out = <<>>)
        /\ \A j \in 1..Len(split_out) : Strip(split_out[j]) # <<>>

\* a whitespace-only text longer than chunk_size went through the overflow branch
C7_Witness ==
    /\ split_pc = "done"
    /\ text # <<>>
    /\ Strip(text) = <<>>
    /\ Len(text) > chunk_size
    /\ split_out = <<>>

\* the last n characters of s, all of s when it has no more than n
Trailing(s, n) == IF n >= Len(s) THEN s ELSE SubSeq(s, Len(s) - n + 1, Len(s))

\* the overflows of the split of the text
TextOverflows == Overflows(SplitSentences(text), 1, <<>>, chunk_size, overlap)

\* the buffer after overflow e is the end of the flushed chunk, then the
\* sentence, with at most the joining blank between them
SeededByOverlap(e) ==
    LET tail == Trailing(e.flushed, overlap)
    IN  e.next \in {tail \o e.sentence, tail \o <<" ">> \o e.sentence}

\* C27: on every overflow the next buffer starts with exactly the trailing
\* `overlap` characters of the chunk that was just flushed, followed by the
\* sentence that triggered the overflow; this holds for every flushed chunk,
\* one of no more than `overlap` characters included.
C27_OverlapSeedsNextBuffer ==
    split_pc = "done" =>
        \A k \in 1..Len(TextOverflows) : SeededByOverlap(TextOverflows[k])

-----------------------------------------------------------------------------
(* Properties of the index store *)

\* what a load of the persisted files puts in self.chunks (nothing to load
\* when chunks.txt is absent or cannot be read)
PersistedChunks ==
    IF chunks_file.state = "ok" THEN ParseChunkFile(chunks_file.content) ELSE <<>>

\* the persisted artifacts are missing, malformed or mutually inconsistent
PersistedBroken ==
    \/ chunks_file.state # "ok"
    \/ metadata_file.state = "malformed"
    \/ /\ metadata_file.state = "ok"
       /\ Len(metadata_file.content) # Len(PersistedChunks)

\* C4: in every reachable state the chunk sequence and the metadata sequence
\* have the same length (metadata entry i belongs to chunk i).
C4_SameLength == Len(chunks) = Len(metadata)

\* C8: after clear() both sequences are empty and the persisted state is empty
\* too: a load of the persisted index yields no chunks.
C8_ClearPersistsEmpty ==
    last_op = "clear" =>
        /\ chunks = <<>>
        /\ metadata = <<>>
        /\ PersistedChunks = <<>>

\* C9: when persisting fails after chunks were appended, the ingestion hands an
\* error to its caller (and the appended chunks stay in memory).
C9_WriteErrorVisible ==
    (/\ last_op = "index_documents_directory"
     /\ save_status = "failed"
     /\ result.value > 0)
    => /\ result.kind = "raised"
       /\ Len(chunks) >= result.value

\* C10: a load that finds the chunk file missing, or the persisted artifacts
\* malformed or inconsistent, leaves the in-memory index empty.
C10_BrokenLoadLeavesEmpty ==
    (last_op = "_load_index" /\ PersistedBroken)
    => /\ result.kind = "returned"
       /\ chunks = <<>>
       /\ metadata = <<>>


\* no chunk of cs holds the separator token
NoSeparatorIn(cs) == \A i \in 1..Len(cs) : ~IsSubstring(Separator, cs[i])

\* the persisted files are what a successful _save_index writes for the index
\* now in memory
SavedAsInMemory ==
    /\ chunks_file = FileOf(ChunkFileText(chunks))
    /\ metadata_file = FileOf(metadata)

\* C11: save followed by load is the identity on the index: when the files
\* are those _save_index wrote for the index in memory and no chunk holds the
\* separator, _load_index restores the same chunks in the same order with the
\* same source labels, and returns their number.
C11_SaveLoadIdentity ==
    [][(/\ SavedAsInMemory
        /\ NoSeparatorIn(chunks)
        /\ last_op' = "_load_index")
       => /\ chunks' = chunks
          /\ metadata' = metadata
          /\ result' = Returned(Len(chunks))]_vars

\* an index of two chunks from two documents has been saved and loaded again
C11_Witness ==
    /\ last_op = "_load_index"
    /\ SavedAsInMemory
    /\ Len(chunks) = 2
    /\ Len(metadata) = 2
    /\ metadata[1] # metadata[2]
    /\ result = Returned(2)

\* the number of chunks document d is split into
ChunkCount(d) == Len(split_into_chunks(DocText(d), chunk_size, overlap))

\* the freshly computed chunk count of a set of documents
RECURSIVE FreshCount(_)
FreshCount(S) ==
    IF S = {} THEN 0
    ELSE LET d == CHOOSE x \in S : TRUE IN ChunkCount(d) + FreshCount(S \ {d})

\* the last operation ran the ingestion loop (not the load of a persisted
\* index, not the early return on an empty directory)
Ingested == last_op = "index_documents_directory" /\ save_status # "none"

\* the documents the last ingestion read
ReadDocuments == {d \in documents : Supported(d)} \ failed

\* C12: ingestion does not deduplicate: every ingestion adds exactly the chunk
\* count of the documents it read, whether or not the index already holds
\* them, and an ingestion after clear() leaves exactly the fresh chunk count.
C12_NoDeduplication ==
    [][Ingested' =>
        /\ result'.value = FreshCount(ReadDocuments')
        /\ ~(UNCHANGED <<memoryVars, dirVars, outcomeVars>>) =>
              /\ Len(chunks') = Len(chunks) + result'.value
              /\ Len(metadata') = Len(metadata) + result'.value
              /\ last_op = "clear" => Len(chunks') = result'.value]_vars

\* the one document of the directory was ingested twice without a clear, and
\* the index holds its chunk twice
C12_Witness ==
    /\ last_op = "index_documents_directory"
    /\ documents = {"d1.txt"}
    /\ result = Returned(1)
    /\ failed = {}
    /\ chunks = <<DocText("d1.txt"), DocText("d1.txt")>>
    /\ metadata = <<[source |-> "d1.txt"], [source |-> "d1.txt"]>>

\* the documents a return value of index_documents_directory names as failed:
\* the value is a chunk count, so none unless an error is handed back
ReportedFailures(res) == {d \in DocNames : res.kind = "failed" /\ d \in res.value}

\* C13: a batch ingestion continues past a failing document: the other
\* documents are chunked and indexed, the failing one adds nothing, and its
\* failure is handed to the caller of the ingestion.
C13_BatchContinuesAndReports ==
    (Ingested /\ failed # {}) =>
        /\ result.value = FreshCount(ReadDocuments)
        /\ failed \subseteq ReportedFailures(result)

\* C30: after index_documents_directory returns n the index in memory holds
\* exactly n chunks; after a forced re-index these are the chunks of the
\* documents now in the directory, so that repeated uploads do not accumulate
\* the chunks of documents indexed before.
C30_IndexHoldsReturnedCount ==
    (last_op = "index_documents_directory" /\ result.kind = "returned") =>
        /\ Len(chunks) = result.value
        /\ Ingested => Len(chunks) = FreshCount(ReadDocuments)

-----------------------------------------------------------------------------
(* Properties of the query orchestrator and of the router *)

\* the requests whose route_text_request has returned
Finished == {r \in Requests : pc[r] = "done"}

\* the requests that went through query_knowledge_base
Queried == {r \in Requests : req[r].retrieval # "none"}

\* s begins with p
HasPrefix(s, p) == Len(p) <= Len(s) /\ SubSeq(s, 1, Len(p)) = p

\* the tokens that only a retrieved context or the primary prompt bring
ContextTokens == {"RAG_PROMPT", "RAG_PROMPT_END", "c1", "c2", "d1.txt", "d2.pdf"}

\* message m carries nothing of a retrieved context
NoContext(m) == \A i \in 1..Len(m.content) : m.content[i] \notin ContextTokens

\* the text the handler sends to the user: response["text"]
Shown(r) == response[r].text

\* the texts of the program that are natural-language text
NaturalTexts == {Answer, fallback_text(Answer), ApologyText, ImageText, ImageErrorText}

\* C1: query_knowledge_base never ends with a raised error, whatever the
\* retrieval and the Generator do (the Generator failing on every call
\* included): it always returns response text to its caller.
C1_NeverRaises ==
    \A r \in Queried : q_outcome[r].kind # "raised"

\* C2: when retrieval gives no chunk or raises and the Generator works, the
\* Generator is called once with the disclaimer-bearing, context-free system
\* message, then the last HISTORY_WINDOW messages of the history, then the
\* query; the returned text is non-empty and is the disclaimer marker followed
\* by the text of the Generator.
C2_FallbackOnNoContext ==
    \A r \in Queried :
        (req[r].retrieval \in {"empty", "raised"} /\ req[r].failures = 0) =>
            /\ Len(gen_calls[r]) = 1
            /\ gen_calls[r][1] =
                   <<FallbackSystem>> \o LastN(req[r].passed, HISTORY_WINDOW)
                                      \o <<Msg("user", req[r].text)>>
            /\ NoContext(gen_calls[r][1][1])
            /\ pc[r] = "done" =>
                   /\ q_outcome[r].kind = "returned"
                   /\ q_outcome[r].text # <<>>
                   /\ HasPrefix(q_outcome[r].text, DisclaimerMarker \o Answer)

\* a fallback after a raised retrieval, with a history longer than the window,
\* has returned its disclaimed answer
C2_Witness ==
    \E r \in Finished :
        /\ req[r].retrieval = "raised"
        /\ req[r].failures = 0
        /\ Len(req[r].passed) > HISTORY_WINDOW
        /\ q_outcome[r].kind = "returned"

\* C3: route_text_request never raises and always returns a mapping whose
\* 'text' is natural-language text, whatever fails; the raw error is never
\* what the user is shown.
C3_RouterAlwaysAnswers ==
    \A r \in Finished :
        /\ response[r].kind = "returned"
        /\ Shown(r) \in NaturalTexts
        /\ Shown(r) # RawError

\* a request whose query_knowledge_base raised has been answered with the apology
C3_Witness ==
    \E r \in Finished :
        /\ q_outcome[r].kind = "raised"
        /\ response[r].error = RawError
        /\ Shown(r) = ApologyText

\* the requests whose retrieval returned chunks and whose Generator call has
\* not failed: the messages of _generate_rag_response are their only call
Primary == {r \in Queried : req[r].retrieval = "hits" /\ req[r].failures = 0}

\* the number of history messages that go into a prompt
Kept(history) == IF Len(history) < HISTORY_WINDOW THEN Len(history) ELSE HISTORY_WINDOW

\* C19: when retrieval returns chunks the Generator gets exactly: one system
\* message embedding the context, then the most recent 6 messages of the
\* supplied history in their order (all of it when shorter), then the query
\* as the final user message; the older messages are the ones dropped.
C19_PrimaryMessages ==
    \A r \in Primary :
        LET messages == gen_calls[r][1]
            history == req[r].passed
        IN  /\ Len(gen_calls[r]) = 1
            /\ Len(messages) = 1 + Kept(history) + 1
            /\ messages[1] = RagSystem(Context(req[r].hits))
            /\ \A k \in 1..Kept(history) :
                  messages[1 + k] = history[Len(history) - Kept(history) + k]
            /\ messages[Len(messages)] = Msg("user", req[r].text)

\* a request of a user whose history is longer than the window went down the
\* primary path and was answered
C19_Witness ==
    \E r \in Primary :
        /\ pc[r] = "done"
        /\ Len(req[r].passed) > HISTORY_WINDOW
        /\ Len(gen_calls[r][1]) = HISTORY_WINDOW + 2
        /\ q_outcome[r] = [kind |-> "returned", text |-> Answer]

\* the requests in RAG mode that have sent a prompt to the Generator
Prompted == {r \in Queried : req[r].mode = "rag" /\ gen_calls[r] # <<>>}

\* the history part of the latest prompt of a request: what lies between the
\* system message and the final user message
Window(r) ==
    LET messages == gen_calls[r][Len(gen_calls[r])]
    IN  SubSeq(messages, 2, Len(messages) - 1)

\* the number of messages of the passed history that the prompt leaves out
Cut(r) == Len(req[r].passed) - Len(Window(r))

\* the window begins with a reply whose question was left out
StartsWithCutReply(r) ==
    /\ Cut(r) > 0
    /\ Window(r)[1].role = "assistant"
    /\ req[r].passed[Cut(r)].role = "user"

\* the window holds a question of an earlier exchange with no reply after it
HoldsUnansweredQuestion(r) ==
    \E k \in 1..(Len(Window(r)) - 1) :
        /\ Window(r)[k].role = "user"
        /\ Window(r)[k + 1].role # "assistant"

\* C20: after any sequence of requests, answered or failed, the history
\* window of a Generator prompt keeps user/assistant pairs together: it does
\* not begin with an assistant message whose user message was cut off, and
\* it holds no user message of an earlier exchange without its reply.
C20_WindowKeepsPairs ==
    \A r \in Prompted : ~StartsWithCutReply(r) /\ ~HoldsUnansweredQuestion(r)

\* C21: the Generator is invoked exactly once per query handled by
\* query_knowledge_base, on every path: the primary path, the fallback after
\* an empty retrieval, and the paths where retrieval or generation fails.
C21_OneGeneratorCall ==
    \A r \in Queried : Len(gen_calls[r]) = 1

\* the requests between the start of route_text_request and its return
InFlight == {r \in Requests : pc[r] \notin {"idle", "done"}}

\* the event loop can take the next step of request o
CanProgress(o) ==
    ENABLED (IntentDetected(o) \/ GeneratorReturns(o) \/ GeneratorFails(o) \/ ImageDone(o))

\* C22: concurrent queries do not block one another: while the pipeline of
\* one query waits for the Generator, the pipeline of every other request in
\* flight can still take its next step.
C22_WaitDoesNotBlock ==
    \A r \in Requests :
        pc[r] \in QueryWaits => \A o \in InFlight \ {r} : CanProgress(o)

\* the header line of hit i followed by the text of the hit
HeadedChunk(hits, i) ==
    <<"[Source ", Numeral(i), ": ", Label(hits[i]), "]", "\n">> \o hits[i].text

\* C26: with the keyword backend as with the dense backend, when retrieval
\* returns chunks the context in the system instruction is the block of the
\* context assembly: every retrieved chunk is preceded by its sequentially
\* numbered header carrying the source label of that chunk.
C26_ContextIsAssembledBlock ==
    \A r \in Primary :
        \A i \in 1..Len(req[r].hits) :
            IsSubstring(HeadedChunk(req[r].hits, i), gen_calls[r][1][1].content)

\* how often the message x stands in the list m
Occurrences(m, x) == Cardinality({i \in 1..Len(m) : m[i] = x})

\* the step of request r that records its user message and builds the messages
Recording(r) == pc[r] = "intent" /\ pc'[r] \in GeneratorWaits

\* C29: for every text request in RAG or text mode, of a first-time user as of
\* a user with history, the history handed on is the history as it was before
\* the current message was recorded, and the current user message stands
\* exactly once in the messages sent to the Generator, as the final message
\* (a question the history already held before is left aside)
C29_CurrentMessageOnce ==
    [][\A r \in Requests :
         Recording(r) =>
             LET before == sessions[req[r].user]
                 current == Msg("user", req[r].text)
                 messages == gen_calls'[r][1]
             IN  /\ req'[r].passed = before
                 /\ messages[Len(messages)] = current
                 /\ Occurrences(before, current) = 0
                        => Occurrences(messages, current) = 1]_vars

-----------------------------------------------------------------------------
(* Properties of keyword retrieval *)

Retrieved == retrieve_pc = "done"

\* the filtered tokens of the question that chunk c holds
SharedTokens(c) == {w \in q_words(question) : w \in words(c)}

\* chunk c holds the lowercased question as a substring
HoldsQuestion(c) == IsSubstring(lower(question), lower(c))

\* the positions of the index whose chunk has a positive score
Positive == {i \in 1..Len(chunks) : score(question, chunks[i]) > 0}

\* C14: the question is filtered to its lowercased word tokens longer than 2
\* characters that are no stop words, and when none is left the result is
\* empty, also when a chunk holds the question verbatim.
C14_FilteredEmptyReturnsNothing ==
    Retrieved =>
        /\ \A w \in words(question) :
              w \in q_words(question) <=> (Len(w) > 2 /\ w \notin stop_words)
        /\ \A w \in q_words(question) : lower(w) = w
        /\ q_words(question) = {} => retrieved = <<>>

\* a question of a stop word and a short word, held verbatim by a chunk of the
\* index, was answered with nothing
C14_Witness ==
    /\ Retrieved
    /\ question = <<"t","h","e"," ","o","k">>
    /\ top_k > 0
    /\ \E i \in 1..Len(chunks) : chunks[i] = question
    /\ retrieved = <<>>

\* C15: with a non-empty filtered token set, the score of a chunk is the
\* number of distinct filtered tokens it shares with the question, plus 10
\* when it holds the lowercased question; only chunks of positive score are
\* returned, so a question that shares no token with, and is held by, no chunk
\* gets the empty sequence.
C15_ScoreAndThreshold ==
    (Retrieved /\ q_words(question) # {}) =>
        /\ \A i \in 1..Len(chunks) :
              score(question, chunks[i]) =
                  Cardinality(SharedTokens(chunks[i]))
                  + (IF HoldsQuestion(chunks[i]) THEN 10 ELSE 0)
        /\ \A j \in 1..Len(retrieved) :
              \E i \in Positive : chunks[i] = retrieved[j]
        /\ (top_k > 0 /\ Positive # {}) => retrieved # <<>>
        /\ (\A i \in 1..Len(chunks) :
               SharedTokens(chunks[i]) = {} /\ ~HoldsQuestion(chunks[i]))
           => retrieved = <<>>

\* a chunk that repeats the one token of the question and holds the question
\* was returned, and the chunk that shares nothing with it was not
C15_Witness ==
    /\ Retrieved
    /\ question = <<"c","a","t">>
    /\ Len(chunks) = 2
    /\ score(question, chunks[1]) = 0
    /\ score(question, chunks[2]) = 11
    /\ chunks[2] = <<"D","o","g",","," ","c","a","t"," ","c","a","t",".">>
    /\ retrieved = <<chunks[2]>>

\* the positions of the index whose chunk is the question itself
Identical == {i \in 1..Len(chunks) : chunks[i] = question}

\* the positions whose chunk shares only part of the filtered question tokens
Partial == {j \in 1..Len(chunks) : SharedTokens(chunks[j]) # q_words(question)}

\* the positions of the result that hold text c
PlacesOf(c) == {p \in 1..Len(retrieved) : retrieved[p] = c}

\* chunk i comes before chunk j in what was returned
Ahead(i, j) ==
    \A p \in PlacesOf(chunks[j]) : \E p2 \in PlacesOf(chunks[i]) : p2 < p

Rank(i) ==
    1 + Cardinality({j \in Positive :
            \/ score(question, chunks[j]) > score(question, chunks[i])
            \/ /\ score(question, chunks[j]) = score(question, chunks[i])
               /\ j < i})

\* C17: the result is the first top_k of the positive-score chunks sorted by
\* score descending, chunks of equal score in insertion order; it never holds
\* more than top_k texts.
C17_RankedStableTopK ==
    Retrieved =>
        /\ Len(retrieved) <= top_k
        /\ q_words(question) # {} =>
              /\ Len(retrieved) =
                    IF Cardinality(Positive) < top_k THEN Cardinality(Positive) ELSE top_k
              /\ \A i \in Positive :
                    Rank(i) <= Len(retrieved) => retrieved[Rank(i)] = chunks[i]

\* two different chunks tie on the score and both are returned, the one
\* indexed first in front
C17_Witness ==
    /\ Retrieved
    /\ Len(chunks) = 2
    /\ chunks[1] # chunks[2]
    /\ score(question, chunks[1]) = score(question, chunks[2])
    /\ score(question, chunks[1]) > 0
    /\ top_k = 2
    /\ retrieved = chunks

-----------------------------------------------------------------------------
(* Properties of the context assembly *)

\* the block of result i: its numbered header line with the source label,
\* then its text on a line of its own
Block(i) ==
    <<"[Source ", Numeral(i), ": ",
      IF results[i].source = NoLabel THEN "Unknown" ELSE results[i].source,
      "]", "\n">>
    \o results[i].text \o <<"\n">>

\* where the block of result i starts when one separator lies between blocks
RECURSIVE BlockStart(_)
BlockStart(i) == IF i = 1 THEN 1 ELSE BlockStart(i - 1) + Len(Block(i - 1)) + 1

\* the elements of the context that are header openings, in order
HeaderPlaces == {p \in 1..Len(context_block) : context_block[p] = "[Source "}

\* C18: the context is one block of text in which result i, counted from 1 in
\* ranked order, has a header with the number i and its source label
\* ('Unknown' when it has none), followed by its text, with a blank line
\* between consecutive results; every text and every source is in the block.
C18_NumberedBlocks ==
    context_pc = "done" =>
        /\ \A i \in 1..Len(results) :
              /\ BlockStart(i) + Len(Block(i)) - 1 <= Len(context_block)
              /\ SubSeq(context_block, BlockStart(i), BlockStart(i) + Len(Block(i)) - 1)
                     = Block(i)
              /\ i > 1 => /\ context_block[BlockStart(i) - 1] = "\n"
                          /\ context_block[BlockStart(i) - 2] = "\n"
              /\ IsSubstring(results[i].text, context_block)
        /\ Cardinality(HeaderPlaces) = Len(results)
        /\ results = <<>> => context_block = <<>>
        /\ results # <<>> =>
              Len(context_block) = BlockStart(Len(results)) + Len(Block(Len(results))) - 1

\* three results, the second without a source label, were assembled
C18_Witness ==
    /\ context_pc = "done"
    /\ Len(results) = 3
    /\ results[2].source = NoLabel
    /\ results[1].source # results[3].source
    /\ \E p \in 1..Len(context_block) :
          context_block[p] = "Unknown" /\ context_block[p - 2] = "2"

-----------------------------------------------------------------------------
(* Properties of a re-index next to queries *)

\* C23: a query's retrieval never observes a partially rebuilt index: however
\* a query is interleaved with the re-index that a document upload starts,
\* keyword_retrieve runs on the index as the last completed call left it
\* (the one before the rebuild, or the one after it), and the chunks and the
\* metadata of that index are aligned.
C23_NoPartialIndexSeen ==
    retrieve_pc = "done" =>
        /\ seen.index = seen.complete
        /\ Len(seen.index.chunks) = Len(seen.index.metadata)

\* a query ran on a non-empty index, and a later re-index now stands between
\* appending a chunk and appending its metadata
C23_Witness ==
    /\ retrieve_pc = "done"
    /\ seen.index.chunks # <<>>
    /\ rebuild.pc = "meta"
    /\ Len(chunks) = Len(metadata) + 1
    /\ Len(chunks) > Len(seen.index.chunks)

-----------------------------------------------------------------------------
(* Properties of the end-to-end example *)

\* the document of the example: its sentences in the order given
InOrder ==
    \E g1 \in Gaps, g2 \in Gaps :
        text = PumpsSentence \o g1 \o PressureSentence \o g2 \o BoltsSentence

\* the tokens "maximum" and "pressure"
Maximum == <<"m", "a", "x", "i", "m", "u", "m">>
Pressure == <<"p", "r", "e", "s", "s", "u", "r", "e">>

\* the example document was split into 2 or 3 chunks
ExampleChunked == Len(chunks) \in {2, 3}

\* the question is filtered to exactly the tokens maximum and pressure
ExampleTokens == q_words(question) = {Maximum, Pressure}

\* the first result is the chunk with the pressure sentence, with score >= 1
ExampleAnswered ==
    /\ retrieved # <<>>
    /\ IsSubstring(PressureSentence, retrieved[1])
    /\ score(question, retrieved[1]) >= 1

\* C24: in the end-to-end example (three sentences, chunk_size 60, overlap
\* 10) the document yields 2 or 3 chunks, the question 'What is the maximum
\* pressure?' is filtered to exactly the token set {maximum, pressure}, and
\* the chunk containing 'Maximum pressure is 10 bar.' has score at least 1
\* and is the first result.
C24_EndToEndExample ==
    (InOrder /\ split_pc = "done") =>
        /\ ExampleChunked
        /\ ExampleTokens
        /\ retrieve_pc = "done" => ExampleAnswered

-----------------------------------------------------------------------------
(* Properties of the session store *)

\* the stored history of u is the end of what was added since the last
\* clear_history, at most 2 * MAX_HISTORY_LENGTH messages of it, in order
HistoryIsTail(u) ==
    LET kept == IF Len(added[u]) < 2 * MAX_HISTORY_LENGTH
                THEN Len(added[u]) ELSE 2 * MAX_HISTORY_LENGTH
    IN  /\ Len(sessions[u]) = kept
        /\ \A k \in 1..kept : sessions[u][k] = added[u][Len(added[u]) - kept + k]

\* a step that adds to or clears the history of u leaves the other
\* histories and every mode and voice as they were
HistoryFrame(u) ==
    added'[u] # added[u] =>
        /\ \A v \in Users \ {u} : sessions'[v] = sessions[v]
        /\ modes' = modes
        /\ voices' = voices
        /\ added'[u] = <<>> => sessions'[u] = <<>>

-----------------------------------------------------------------------------
(* Properties of the retrieval as a reader of the index *)

\* a step of keyword_retrieve: its question, its result or what it ran on
\* is new
Retrieving ==
    <<question, top_k, retrieve_pc, retrieved, seen>>'
        # <<question, top_k, retrieve_pc, retrieved, seen>>

\* C28: retrieval is read-only: keyword_retrieve, whatever it returns
\* (results, an empty sequence, or the empty sequence after an internal
\* error), leaves the in-memory chunks and metadata and the persisted index
\* files unchanged; what writes them is the ingestion.
C28_RetrievalReadOnly ==
    [][/\ Retrieving => UNCHANGED <<memoryVars, diskVars>>
       /\ ~(UNCHANGED <<memoryVars, diskVars>>) => rebuild' # rebuild]_vars

\* a retrieval has returned a chunk of an index that is also on disk
C28_Witness ==
    /\ retrieve_pc = "done"
    /\ retrieved # <<>>
    /\ seen.index = Index(chunks, metadata)
    /\ chunks_file = FileOf(ChunkFileText(chunks))
    /\ metadata_file = FileOf(metadata)
====
